---- MODULE Spec2Model ----
(***************************************************************************)
(* A model of the CRDT library: the operation-based framework of CRDT.py   *)
(* (CRDTStore, CRDT, LWWRegister, ...) and the delta-state framework of    *)
(* DeltaCRDT.py (DotStore, CausalCRDT.join, MVRegister, AWSet, RWSet,      *)
(* ORMap).  Stores hold named CRDT objects, local operations build a       *)
(* command, execute it at the source and publish it; broadcast delivers    *)
(* the in-flight commands of a store, shuffled, to its connections.        *)
(***************************************************************************)
EXTENDS Integers, Sequences, FiniteSets, Bags, TLC

VARIABLES
  crdts,      \* CRDTStore.crdts of every store: store id -> (name -> object)
  msgs,       \* CRDTStore.msgs of every store: the in-flight commands, each
              \* with the id the history gives it
  dot_seq,    \* per store, the sequence number of the last dot issued
  published,  \* history: every command handed to publish, with its origin
  delivered,  \* history: per store, the published commands it has received
  nops        \* the number of local operations performed so far

vars == <<crdts, msgs, dot_seq, published, delivered, nops>>

----------------------------------------------------------------------------
(* Bounds of the model and the input domains.                              *)

\* local operations performed in one behaviour, over all stores
MaxOps == 3
\* commands a store may hold in flight; an operation waits for a broadcast
MaxInFlight == 3
\* a StateCounter is delivered a command again only while every amount it
\* holds stays within this magnitude
MaxAmount == 3
\* calls made on the map in one behaviour of the CRDTMap specification
MaxMapOps == 3

\* the stores of the delta-state specifications (CRDTStore.id, from 0)
CausalStores == 0 .. 1
\* the stores of the LWWRegister specification
LWWStores == 0 .. 2

\* the name the replicated object is registered under at every store
Name == "obj"
\* the values written to an LWWRegister, whose first value is 0
LWWVals == {1, 2}
\* the stores of the StateCounter, ORSet and CRDTMap specifications
OpStores == 0 .. 1
\* the amounts handed to StateCounter.inc
Amounts == {1, 2}
\* set elements, register values and map keys
Elems == {"a", "b"}
Vals == {"u", "v"}
Keys == {"k"}
Keys2 == {"k", "l"}
\* the name of the ORSet that is the value of a map's keys
Child == "val"

----------------------------------------------------------------------------
(* DotStore: DotSet, DotFun and DotMap.                                    *)

DotSet(s) == [type |-> "DotSet", set |-> s]
DotFun(m) == [type |-> "DotFun", map |-> m]
DotMap(val_bottom, m) == [type |-> "DotMap", val_bottom |-> val_bottom, map |-> m]

\* the empty dict
EmptyMap == <<>>

RECURSIVE dots(_)
dots(ds) ==
  CASE ds.type = "DotSet" -> ds.set
    [] ds.type = "DotFun" -> DOMAIN ds.map
    [] ds.type = "DotMap" -> UNION {dots(ds.map[k]) : k \in DOMAIN ds.map}

is_bottom(ds) ==
  IF ds.type = "DotSet" THEN ds.set = {} ELSE DOMAIN ds.map = {}

domain(ds) == DOMAIN ds.map

\* dict.get(key, default) on the map of a DotMap
MapGet(ds, key) == IF key \in DOMAIN ds.map THEN ds.map[key] ELSE ds.val_bottom

----------------------------------------------------------------------------
(* CausalCRDT.join.  A causal state is a dot store with a causal context;  *)
(* the attribute access of the code fails on operands of another variant,  *)
(* which the model returns as AttributeError.                              *)

AttributeError == [exc |-> "AttributeError"]
TypeError == [exc |-> "TypeError"]

Causal(ds, ctx) == [dot_store |-> ds, causal_ctx |-> ctx]

IsExc(x) == "exc" \in DOMAIN x

\* a join that keeps its own dots whatever the other side has observed
JoinDotSetKeep(s1, c1, s2, c2) == (s2 \cap s1) \cup s1 \cup (s2 \ c1)
JoinDotSet(s1, c1, s2, c2) ==
  (s2 \cap s1) \cup (s1 \ c2) \cup (s2 \ c1)

JoinDotFun(m1, c1, m2, c2, inter) ==
  LET keep1 == {d \in DOMAIN m1 : d \notin c2}
      keep2 == {d \in DOMAIN m2 : d \notin c1}
  IN [d \in keep1 \cup keep2 \cup inter |->
        IF d \in inter THEN m1[d]
        ELSE IF d \in keep2 THEN m2[d] ELSE m1[d]]

RECURSIVE CausalCRDT_join(_, _)
CausalCRDT_join(self, ccrdt) ==
  LET ds1 == self.dot_store
      c1 == self.causal_ctx
      ds2 == ccrdt.dot_store
      c2 == ccrdt.causal_ctx
  IN CASE ds1.type = "DotSet" ->
            IF ds2.type # "DotSet" THEN AttributeError
            ELSE Causal(DotSet(JoinDotSet(ds1.set, c1, ds2.set, c2)), c1 \cup c2)
       [] ds1.type = "DotFun" ->
            IF ds2.type = "DotSet" THEN AttributeError
            ELSE Causal(DotFun(JoinDotFun(ds1.map, c1, ds2.map, c2,
                                          dots(ds1) \cap dots(ds2))),
                        c1 \cup c2)
       [] ds1.type = "DotMap" ->
            IF ds2.type # "DotMap" THEN AttributeError
            ELSE LET union_keys == domain(ds1) \cup domain(ds2)
                     v1 == [key \in union_keys |->
                              CausalCRDT_join(Causal(MapGet(ds1, key), c1),
                                              Causal(MapGet(ds2, key), c2))]
                 IN IF \E key \in union_keys : IsExc(v1[key])
                    THEN AttributeError
                    ELSE LET live == {key \in union_keys :
                                        ~is_bottom(v1[key].dot_store)}
                         IN Causal(DotMap(ds1.val_bottom,
                                          [key \in live |-> v1[key].dot_store]),
                                   c1 \cup c2)

----------------------------------------------------------------------------
(* CRDTCommand and the causal CRDT objects.                                *)

\* the source of a command before setSource
None == "None"

CRDTCommand(cmdtype, data) == [source |-> None, type |-> cmdtype, data |-> data]

MVRegister(name) ==
  [cls |-> "MVRegister", name |-> name,
   dot_store |-> DotFun(EmptyMap), causal_ctx |-> {}]

AWSet(name) ==
  [cls |-> "AWSet", name |-> name,
   dot_store |-> DotMap(DotSet({}), EmptyMap), causal_ctx |-> {}]

RWSet(name) ==
  [cls |-> "RWSet", name |-> name,
   dot_store |-> DotMap(DotMap(DotSet({}), EmptyMap), EmptyMap), causal_ctx |-> {}]

ORMap(val_bottom, name) ==
  [cls |-> "ORMap", name |-> name,
   dot_store |-> DotMap(val_bottom.dot_store, EmptyMap), causal_ctx |-> {},
   val_bottom |-> val_bottom]

CausalTypes == {"MVRegister", "AWSet", "RWSet", "ORMap"}

\* the causal state of an object, as join reads it
StateOf(self) == Causal(self.dot_store, self.causal_ctx)

\* The executors registered in CRDT.executorMap for the causal types: each is
\* the class's join(self, data), which joins data["delta"] into self through
\* super(<class>, self), a TypeError when self is of another class.
CausalExecutor(self, cmd) ==
  IF self.cls # cmd.type THEN TypeError
  ELSE LET j == CausalCRDT_join(StateOf(self), cmd.data.delta)
       IN IF IsExc(j) THEN j
          ELSE [self EXCEPT !.dot_store = j.dot_store,
                            !.causal_ctx = j.causal_ctx]

\* A method decorated with CRDT.command returns what it built and did:
\*   self  the object after the method's own in-place effects,
\*   cmd   the command it returns,
\*   ndots the dots it drew from the store,
\*   inner the commands nested calls published to the store,
\*   raised whether a nested call raised, which ends the method.
Built(self, cmd, ndots, inner) ==
  [self |-> self, cmd |-> cmd, ndots |-> ndots, inner |-> inner, raised |-> FALSE]

Delta(cmdtype, ds, ctx) == CRDTCommand(cmdtype, [delta |-> Causal(ds, ctx)])

----------------------------------------------------------------------------
(* MVRegister.                                                             *)

\* a write whose context holds the new dot only
MVRegister_writeBlind(self, val, dot) ==
  Built(self, Delta("MVRegister", DotFun(dot :> val), {dot}), 1, <<>>)
MVRegister_write(self, val, dot) ==
  Built(self,
        Delta("MVRegister", DotFun(dot :> val), dots(self.dot_store) \cup {dot}),
        1, <<>>)

MVRegister_clear(self) ==
  Built(self, Delta("MVRegister", DotFun(EmptyMap), dots(self.dot_store)), 0, <<>>)

\* read() is the list of the stored values, in no order: a bag
MVRegister_read(self) ==
  LET m == self.dot_store.map
      vs == {m[d] : d \in DOMAIN m}
  IN [v \in vs |-> Cardinality({d \in DOMAIN m : m[d] = v})]

----------------------------------------------------------------------------
(* AWSet.                                                                  *)

\* add binds the delta's context to the element's own set object and then
\* |= the new dot into it: the element's dot set in self grows in place.
\* an add whose context leaves the new dot out
AWSet_addNoCtx(self, e, dot) ==
  Built(self,
        Delta("AWSet", DotMap(DotSet({}), e :> DotSet({dot})),
              IF e \in DOMAIN self.dot_store.map
              THEN self.dot_store.map[e].set ELSE {}),
        1, <<>>)
AWSet_add(self, e, dot) ==
  LET singdot == {dot}
      present == e \in DOMAIN self.dot_store.map
      ctx == (IF present THEN self.dot_store.map[e].set ELSE {}) \cup singdot
      aliased == IF present
                 THEN [self EXCEPT !.dot_store.map[e] = DotSet(ctx)]
                 ELSE self
  IN Built(aliased,
           Delta("AWSet", DotMap(DotSet({}), e :> DotSet(singdot)), ctx),
           1, <<>>)

AWSet_remove(self, e) ==
  Built(self,
        Delta("AWSet", DotMap(DotSet({}), EmptyMap),
              IF e \in DOMAIN self.dot_store.map
              THEN self.dot_store.map[e].set ELSE {}),
        0, <<>>)

\* a clear whose context holds every dot there can be, seen or not
AWSet_clearAll(self) ==
  Built(self,
        Delta("AWSet", DotMap(DotSet({}), EmptyMap), CausalStores \X (1 .. MaxOps)),
        0, <<>>)
AWSet_clear(self) ==
  Built(self, Delta("AWSet", DotMap(DotSet({}), EmptyMap), dots(self.dot_store)),
        0, <<>>)

AWSet_elems(self) == DOMAIN self.dot_store.map

AWSet_contains(self, e) == e \in AWSet_elems(self)

----------------------------------------------------------------------------
(* RWSet.                                                                  *)

RWSet_tag(self, e, tag, dot) ==
  LET singdot == {dot}
      ctx == (IF e \in DOMAIN self.dot_store.map
              THEN dots(self.dot_store.map[e]) ELSE {}) \cup singdot
  IN Built(self,
           Delta("RWSet",
                 DotMap(DotMap(DotSet({}), EmptyMap),
                        e :> DotMap(DotSet({}), tag :> DotSet(singdot))),
                 ctx),
           1, <<>>)

RWSet_add(self, e, dot) == RWSet_tag(self, e, TRUE, dot)

RWSet_remove(self, e, dot) == RWSet_tag(self, e, FALSE, dot)

RWSet_clear(self) ==
  Built(self,
        Delta("RWSet", DotMap(DotMap(DotSet({}), EmptyMap), EmptyMap),
              dots(self.dot_store)),
        0, <<>>)

\* presence by a surviving add, whatever removes survive
RWSet_elemsAdd(self) ==
  {key \in DOMAIN self.dot_store.map :
     TRUE \in DOMAIN self.dot_store.map[key].map}
RWSet_elems(self) ==
  {key \in DOMAIN self.dot_store.map :
     FALSE \notin DOMAIN self.dot_store.map[key].map}

----------------------------------------------------------------------------
(* LWWRegister.  The object knows its store, whose id arbitrates.          *)

LWWRegister(name) ==
  [cls |-> "LWWRegister", name |-> name, store |-> None, t |-> 0, value |-> 0]

\* CRDTStore.register: crdt.setStore(self), for the store of id s
setStore(crdt, s) == [crdt EXCEPT !.store = s]

\* the executor of "LWWRegisterSet"
LWWRegister_doSet(self, data) ==
  IF self.cls # "LWWRegister" THEN AttributeError
  ELSE IF data.t > self.t
  THEN [self EXCEPT !.t = data.t, !.value = data.value]
  ELSE IF data.t = self.t /\ data.store > self.store
  THEN [self EXCEPT !.value = data.value]
  ELSE IF data.store = self.store
  THEN [self EXCEPT !.value = data.value]
  ELSE self

\* set advances self.t in place before it builds the command
LWWRegister_set(self, v) ==
  LET ticked == [self EXCEPT !.t = @ + 1]
  IN Built(ticked,
           CRDTCommand("LWWRegisterSet",
                       [t |-> ticked.t, store |-> self.store, value |-> v]),
           0, <<>>)

LWWRegister_get(self) == self.value

----------------------------------------------------------------------------
(* StateCounter.  storeValues maps a store id to the amount it holds.      *)

StateCounter(name) ==
  [cls |-> "StateCounter", name |-> name, store |-> None, storeValues |-> EmptyMap]

\* the executor of "StateCounterInc"
StateCounter_doInc(self, data) ==
  IF self.cls # "StateCounter" THEN AttributeError
  ELSE IF data.store_id \in DOMAIN self.storeValues
  THEN [self EXCEPT !.storeValues[data.store_id] = @ + data.inc_amt]
  ELSE [self EXCEPT !.storeValues = @ @@ (data.store_id :> data.inc_amt)]

StateCounter_inc(self, amount) ==
  Built(self,
        CRDTCommand("StateCounterInc", [store_id |-> self.store, inc_amt |-> amount]),
        0, <<>>)

RECURSIVE SumOver(_, _)
\* the sum of the values f holds at the keys of S
SumOver(f, S) ==
  IF S = {} THEN 0
  ELSE LET k == CHOOSE k \in S : TRUE IN f[k] + SumOver(f, S \ {k})

StateCounter_get(self) == SumOver(self.storeValues, DOMAIN self.storeValues)

\* reset calls self.inc(0 - v)
StateCounter_reset(self) == StateCounter_inc(self, 0 - StateCounter_get(self))

----------------------------------------------------------------------------
(* ORSet.  adds and tombstones hold <<element, id>> pairs.                 *)

ORSet(name) ==
  [cls |-> "ORSet", name |-> name, store |-> None, adds |-> {}, tombstones |-> {}]

\* the executor of "ORSetAdd"
ORSet_doAdd(self, data) ==
  IF self.cls # "ORSet" THEN AttributeError
  ELSE [self EXCEPT !.adds = @ \cup {<<data.elem, data.id>>}]

\* id is str(uuid.uuid1())
ORSet_add(self, e, id) ==
  Built(self, CRDTCommand("ORSetAdd", [elem |-> e, id |-> id]), 1, <<>>)

\* the executor of "ORSetRemove"
ORSet_doRemove(self, data) ==
  IF self.cls # "ORSet" THEN AttributeError
  ELSE [self EXCEPT !.tombstones = @ \cup {<<data.elem, elem_id>> : elem_id \in data.ids}]

ORSet_remove(self, e) ==
  LET ids == {x[2] : x \in {y \in self.adds : y[1] = e}}
  IN Built(self, CRDTCommand("ORSetRemove", [elem |-> e, ids |-> ids]), 0, <<>>)

\* the executor of "ORSetRemoveAll"; data.elems is the set the command's
\* reference stands for when the executor runs
ORSet_doRemoveAll(self, data) ==
  IF self.cls # "ORSet" THEN AttributeError
  ELSE [self EXCEPT !.tombstones = @ \cup data.elems]

\* the command's data holds self.adds itself, the set object of this
\* replica, not a copy: elems names the object that owns the set
ORSet_removeAll(self) ==
  Built(self,
        CRDTCommand("ORSetRemoveAll",
                    [elems |-> [store |-> self.store, name |-> self.name]]),
        0, <<>>)

ORSet_reset(self) == ORSet_removeAll(self)

\* membership whatever the id: e is out once any pair of e is tombstoned
ORSet_containsAny(self, e) ==
  /\ \E x \in self.adds : x[1] = e
  /\ ~\E x \in self.tombstones : x[1] = e
ORSet_contains(self, e) ==
  \E x \in self.adds : x[1] = e /\ x \notin self.tombstones

ORSet_getAll(self) == {x[1] : x \in self.adds \ self.tombstones}

----------------------------------------------------------------------------
(* CRDTMap.  keyset is the name under which the map's ORSet of keys is     *)
(* registered; map takes a key to the name of its value CRDT.              *)

CRDTMap(name) ==
  [cls |-> "CRDTMap", name |-> name, store |-> None,
   keyset |-> name \o "_keys", map |-> EmptyMap]

\* the executor of "CRDTMapPut"
CRDTMap_doPut(self, data) ==
  IF self.cls # "CRDTMap" THEN AttributeError
  ELSE [self EXCEPT !.map = (data.key :> data.value) @@ @]

----------------------------------------------------------------------------
(* CRDT.executeCommand and the CRDT.command decorator.                     *)

KeyError == [exc |-> "KeyError"]

\* the command as an executor reads it while objs are the stores' objects:
\* a set held by reference is the owner's set as it is now
Deref(objs, cmd) ==
  IF cmd.type = "ORSetRemoveAll"
  THEN [cmd EXCEPT !.data.elems = objs[@.store][@.name].adds]
  ELSE cmd

\* CRDT.executorMap[cmd.type](self, cmd.data)
executeCommand(self, cmd) ==
  CASE cmd.type \in CausalTypes -> CausalExecutor(self, cmd)
    [] cmd.type = "LWWRegisterSet" -> LWWRegister_doSet(self, cmd.data)
    [] cmd.type = "StateCounterInc" -> StateCounter_doInc(self, cmd.data)
    [] cmd.type = "ORSetAdd" -> ORSet_doAdd(self, cmd.data)
    [] cmd.type = "ORSetRemove" -> ORSet_doRemove(self, cmd.data)
    [] cmd.type = "ORSetRemoveAll" -> ORSet_doRemoveAll(self, cmd.data)
    [] cmd.type = "CRDTMapPut" -> CRDTMap_doPut(self, cmd.data)
    [] OTHER -> KeyError

\* wrapper: cmd = f(self, *args); cmd.setSource(self.name);
\* self.executeCommand(cmd); self.publish(cmd).  b is what f built; out is
\* what reached the store's publish, in order.
command(name, b) ==
  LET cmd == [b.cmd EXCEPT !.source = name]
      own == IF cmd.type = "ORSetRemoveAll"
             THEN Deref(b.self.store :> (b.self.name :> b.self), cmd) ELSE cmd
      ex == executeCommand(b.self, own)
  IN IF b.raised
     THEN [self |-> b.self, raised |-> TRUE, out |-> b.inner, ndots |-> b.ndots]
     ELSE IF IsExc(ex)
     THEN [self |-> b.self, raised |-> TRUE, out |-> b.inner, ndots |-> b.ndots]
     ELSE [self |-> ex, raised |-> FALSE, out |-> Append(b.inner, cmd),
           ndots |-> b.ndots]

\* the operations of the causal value types, as the f of ORMap.apply calls
\* them on the materialized value: f is [m |-> method, arg |-> argument]
ValueOps(cls) ==
  IF cls = "MVRegister"
  THEN [m : {"write"}, arg : Vals] \cup [m : {"clear"}, arg : {None}]
  ELSE [m : {"add", "remove"}, arg : Elems] \cup [m : {"clear"}, arg : {None}]

ValueMethod(v, f, dot) ==
  CASE v.cls = "MVRegister" /\ f.m = "write" -> MVRegister_write(v, f.arg, dot)
    [] v.cls = "MVRegister" /\ f.m = "clear" -> MVRegister_clear(v)
    [] v.cls = "AWSet" /\ f.m = "add" -> AWSet_add(v, f.arg, dot)
    [] v.cls = "AWSet" /\ f.m = "remove" -> AWSet_remove(v, f.arg)
    [] v.cls = "AWSet" /\ f.m = "clear" -> AWSet_clear(v)
    [] v.cls = "RWSet" /\ f.m = "add" -> RWSet_add(v, f.arg, dot)
    [] v.cls = "RWSet" /\ f.m = "remove" -> RWSet_remove(v, f.arg, dot)
    [] v.cls = "RWSet" /\ f.m = "clear" -> RWSet_clear(v)

----------------------------------------------------------------------------
(* ORMap.                                                                  *)

\* apply materializes the value at k with the whole map's causal context,
\* lets f run a command of the value type on it (which joins its delta into
\* the value and publishes it to the store under the value's name, ""), and
\* wraps the value's dot store as a one-key delta.  The value's DotMap is a
\* shallow copy: an in-place change f makes to a nested dot set is a change
\* to the map's own entry.
ORMap_apply(self, k, f, dot) ==
  LET v0 == [self.val_bottom EXCEPT
               !.dot_store = MapGet(self.dot_store, k),
               !.causal_ctx = self.causal_ctx]
      b == ValueMethod(v0, f, dot)
      c == command(v0.name, b)
      v == c.self
      shared == IF b.self # v0
                THEN [self EXCEPT !.dot_store.map[k] = b.self.dot_store]
                ELSE self
      built == Built(shared,
                     Delta("ORMap",
                           DotMap(self.dot_store.val_bottom, k :> v.dot_store),
                           v.causal_ctx),
                     c.ndots, c.out)
  IN [built EXCEPT !.raised = c.raised]

\* a remove whose context is empty
ORMap_removeNone(self, e) ==
  Built(self, Delta("ORMap", DotMap(self.val_bottom.dot_store, EmptyMap), {}),
        0, <<>>)
ORMap_remove(self, e) ==
  Built(self,
        Delta("ORMap", DotMap(self.val_bottom.dot_store, EmptyMap),
              IF e \in DOMAIN self.dot_store.map
              THEN dots(self.dot_store.map[e]) ELSE {}),
        0, <<>>)

ORMap_clear(self) ==
  Built(self, Delta("ORMap", DotMap(DotSet({}), EmptyMap), dots(self.dot_store)),
        0, <<>>)

\* what __str__ shows: every key with the readable value of its dot store
ValueRead(cls, ds) ==
  LET v == [cls |-> cls, dot_store |-> ds]
  IN CASE cls = "MVRegister" -> MVRegister_read(v)
       [] cls = "AWSet" -> AWSet_elems(v)
       [] cls = "RWSet" -> RWSet_elems(v)

ORMap_str(self) ==
  [k \in DOMAIN self.dot_store.map |->
     ValueRead(self.val_bottom.cls, self.dot_store.map[k])]

----------------------------------------------------------------------------
(* Calls that reach several objects of one store.  A call starts from      *)
(* Here: objs the store's objects, out what the call has published so far, *)
(* ndots the ids it has drawn, exc the exception that ended it, ret what   *)
(* it returned.                                                            *)

Here(objs) == [objs |-> objs, out |-> <<>>, ndots |-> 0, exc |-> None, ret |-> None]

Raise(L, exc) == [L EXCEPT !.exc = exc]

\* a decorated method of the object registered as name, b what it built
Call(L, name, b) ==
  LET c == command(name, b)
  IN [L EXCEPT !.objs[name] = c.self,
               !.out = @ \o c.out,
               !.ndots = @ + c.ndots,
               !.exc = IF c.raised THEN "AttributeError" ELSE None]

\* CRDTStore.register(crdt) at the store of id s; CRDTMap.setStore also
\* registers the keyset
register(objs, crdt, s) ==
  LET own == (crdt.name :> setStore(crdt, s)) @@ objs
  IN IF crdt.cls = "CRDTMap"
     THEN (crdt.keyset :> setStore(ORSet(crdt.keyset), s)) @@ own
     ELSE own

\* the id the call draws next, when the store had drawn n before the call
NextId(L, s, n) == <<s, n + L.ndots + 1>>

\* a base reset that returns without raising
CRDT_resetQuiet(L, name) == L
\* CRDT.reset of the base class: raise Exception("This CRDT does not
\* support resets")
CRDT_reset(L, name) == Raise(L, "Exception")

\* obj.reset() for the object registered as name
reset(L, name) ==
  LET obj == L.objs[name]
  IN CASE obj.cls = "ORSet" -> Call(L, name, ORSet_reset(obj))
       [] obj.cls = "StateCounter" -> Call(L, name, StateCounter_reset(obj))
       [] OTHER -> CRDT_reset(L, name)

\* the one value of a singleton: The({f(x) : x \in {e}}) is f(e), with e
\* computed once
The(S) == CHOOSE x \in S : TRUE

\* put(key, crdt) on the map registered as name: register, keyset.add, and
\* the wrapper executes and publishes the CRDTMapPut command
CRDTMap_put(L, s, n, name, key, crdt) ==
  LET keyset == L.objs[name].keyset
      put == CRDTCommand("CRDTMapPut", [key |-> key, value |-> crdt.name])
  IN The({Call(L2, name, Built(L2.objs[name], put, 0, <<>>)) :
            L2 \in {Call(L1, keyset, ORSet_add(L1.objs[keyset], key, NextId(L1, s, n))) :
                      L1 \in {[L EXCEPT !.objs = register(@, crdt, s)]}}})

\* self.store[self.map[key]] after the keyset's call: KeyError when the
\* table has no entry for key or the store no object of that name
Value(L, name, key) ==
  LET self == L.objs[name]
  IN IF key \notin DOMAIN self.map THEN Raise(L, "KeyError")
     ELSE IF self.map[key] \notin DOMAIN L.objs THEN Raise(L, "KeyError")
     ELSE [L EXCEPT !.ret = self.map[key]]

\* remove(key)
CRDTMap_remove(L, name, key) ==
  LET keyset == L.objs[name].keyset
  IN IF ORSet_contains(L.objs[keyset], key)
     THEN The({IF L2.exc # None THEN L2 ELSE [reset(L2, L2.ret) EXCEPT !.ret = None] :
                 L2 \in {Value(L1, name, key) :
                           L1 \in {Call(L, keyset, ORSet_remove(L.objs[keyset], key))}}})
     ELSE L

\* a read that adds the key to the keyset whether it is present or not
CRDTMap_getitemAdd(L, s, n, name, key) ==
  LET keyset == L.objs[name].keyset
  IN The({IF ORSet_contains(L.objs[keyset], key)
          THEN Value(L1, name, key) ELSE Raise(L1, "KeyError") :
            L1 \in {Call(L, keyset, ORSet_add(L.objs[keyset], key, NextId(L, s, n)))}})
\* __getitem__(key): ret is the name of the object returned
CRDTMap_getitem(L, s, n, name, key) ==
  LET keyset == L.objs[name].keyset
  IN IF ORSet_contains(L.objs[keyset], key)
     THEN The({Value(L1, name, key) :
                 L1 \in {Call(L, keyset, ORSet_add(L.objs[keyset], key, NextId(L, s, n)))}})
     ELSE Raise(L, "KeyError")

\* __str__: the present keys with what their values show
CRDTMap_str(objs, name) ==
  LET self == objs[name]
      shown == {key \in DOMAIN self.map : ORSet_contains(objs[self.keyset], key)}
  IN [key \in shown |-> ORSet_getAll(objs[self.map[key]])]

----------------------------------------------------------------------------
(* CRDTStore: receive, broadcast and sync.  A world is the part of the     *)
(* state a delivery changes; ok is FALSE once an executor has raised,      *)
(* which ends the broadcast or sync under way.                             *)

Stores == DOMAIN crdts

\* self.connections after every pair of stores is connected
Connections(s) == Stores \ {s}

World == [crdts |-> crdts, msgs |-> msgs, delivered |-> delivered, ok |-> TRUE]

\* receive(cmd) at store s, of the command published as id
receive(w, s, cmd, id) ==
  LET seen == [w.delivered EXCEPT ![s] = @ \cup {id}]
  IN IF cmd.source \notin DOMAIN w.crdts[s]
     THEN [w EXCEPT !.delivered = seen]
     ELSE LET ex == executeCommand(w.crdts[s][cmd.source], Deref(w.crdts, cmd))
          IN IF IsExc(ex)
             THEN [w EXCEPT !.delivered = seen, !.ok = FALSE]
             ELSE [w EXCEPT !.crdts[s][cmd.source] = ex, !.delivered = seen]

\* random.shuffle(self.msgs): any order of the list
Shuffles(q) ==
  {[i \in 1 .. Len(q) |-> q[p[i]]] : p \in Permutations(1 .. Len(q))}

\* the orders in which a for loop may visit a set
Orders(S) ==
  {o \in [1 .. Cardinality(S) -> S] : \A i, j \in DOMAIN o : o[i] = o[j] => i = j}

RECURSIVE Deliver(_, _, _, _, _)
\* for msg in msgs[i ..] of store s: for store in order[j ..] (then all of
\* order): store.receive(msg)
Deliver(w, s, q, order, at) ==
  LET i == at[1]
      j == at[2]
  IN IF ~w.ok \/ i > Len(q) THEN w
     ELSE IF j > Len(order) THEN Deliver(w, s, q, order, <<i + 1, 1>>)
     ELSE Deliver(receive(w, order[j], q[i].cmd, q[i].id), s, q, order,
                  <<i, j + 1>>)

\* the list stays shuffled, and uncleared when a receive raised
broadcast(w, s, shuffled, order) ==
  LET w1 == Deliver([w EXCEPT !.msgs[s] = shuffled], s, shuffled, order, <<1, 1>>)
  IN IF w1.ok THEN [w1 EXCEPT !.msgs[s] = <<>>] ELSE w1

BroadcastOutcomes(w, s, order) ==
  IF ~w.ok THEN {w}
  ELSE {broadcast(w, s, q, order) : q \in Shuffles(w.msgs[s])}

RECURSIVE BroadcastEach(_, _)
\* for store in order: store.broadcast(), from every world of W
BroadcastEach(W, order) ==
  IF order = <<>> THEN W
  ELSE BroadcastEach(
         UNION {UNION {BroadcastOutcomes(w, Head(order), o) :
                         o \in Orders(Connections(Head(order)))} : w \in W},
         Tail(order))

SyncOutcomes(w, s) ==
  UNION {BroadcastEach(BroadcastOutcomes(w, s, order), order) :
           order \in Orders(Connections(s))}

Arrive(w) ==
  /\ crdts' = w.crdts
  /\ msgs' = w.msgs
  /\ delivered' = w.delivered
  /\ UNCHANGED <<dot_seq, published, nops>>

\* one store's broadcast()
Broadcast(s) ==
  \E order \in Orders(Connections(s)) :
    \E w \in BroadcastOutcomes(World, s, order) : Arrive(w)

\* one store's sync()
Sync(s) == \E w \in SyncOutcomes(World, s) : Arrive(w)

\* receive(cmd) of a command s has received before: the network may
\* deliver a command again
Receive(s) ==
  \E h \in published :
    /\ h.id \in delivered[s]
    /\ Arrive(receive(World, s, h.cmd, h.id))

----------------------------------------------------------------------------
(* Local operations: a decorated method called on the object registered    *)
(* under Name at store s.                                                  *)

\* CRDTStore.next_dot, which write, add and remove call and CRDT.py does not
\* define: by the specification's contract, a fresh dot of the store's id
\* and its incremented sequence number
next_dot(s) == <<s, dot_seq[s] + 1>>

\* the commands s has published so far
Own(s) == {h.id : h \in {g \in published : g.origin = s}}

\* the commands executed at s so far: its own and those delivered to it
Joined(s) == delivered[s] \cup Own(s)

\* op names the call in the history: [m |-> method, arg |-> its arguments]
Local(s, b, op) ==
  LET c == command(crdts[s][Name].name, b)
      id(i) == <<s, Cardinality(Own(s)) + i>>
  IN /\ nops < MaxOps
     /\ Len(msgs[s]) + Len(c.out) <= MaxInFlight
     /\ nops' = nops + 1
     /\ crdts' = [crdts EXCEPT ![s][Name] = c.self]
     /\ msgs' = [msgs EXCEPT
                   ![s] = @ \o [i \in DOMAIN c.out |-> [id |-> id(i), cmd |-> c.out[i]]]]
     /\ dot_seq' = [dot_seq EXCEPT ![s] = @ + c.ndots]
     /\ published' = published \cup
          {[id |-> id(i), origin |-> s,
            cmd |-> c.out[i], known |-> Joined(s), op |-> op] :
             i \in DOMAIN c.out}
     /\ UNCHANGED delivered

Is(s, cls) == crdts[s][Name].cls = cls

\* the mutations a caller hands to apply on a map of AWSet
MapOps == ValueOps("AWSet")

MVWrite(s, val) ==
  Is(s, "MVRegister") /\ Local(s, MVRegister_write(crdts[s][Name], val, next_dot(s)),
           [m |-> "write", arg |-> val])

MVClear(s) ==
  Is(s, "MVRegister") /\ Local(s, MVRegister_clear(crdts[s][Name]), [m |-> "clear", arg |-> None])

AWAdd(s, e) ==
  Is(s, "AWSet") /\ Local(s, AWSet_add(crdts[s][Name], e, next_dot(s)), [m |-> "add", arg |-> e])

AWRemove(s, e) ==
  Is(s, "AWSet") /\ Local(s, AWSet_remove(crdts[s][Name], e), [m |-> "remove", arg |-> e])

AWClear(s) ==
  Is(s, "AWSet") /\ Local(s, AWSet_clear(crdts[s][Name]), [m |-> "clear", arg |-> None])

RWAdd(s, e) ==
  Is(s, "RWSet") /\ Local(s, RWSet_add(crdts[s][Name], e, next_dot(s)), [m |-> "add", arg |-> e])

RWRemove(s, e) ==
  Is(s, "RWSet") /\ Local(s, RWSet_remove(crdts[s][Name], e, next_dot(s)),
           [m |-> "remove", arg |-> e])

RWClear(s) ==
  Is(s, "RWSet") /\ Local(s, RWSet_clear(crdts[s][Name]), [m |-> "clear", arg |-> None])

ORApply(s, k, f) ==
  Is(s, "ORMap") /\ Local(s, ORMap_apply(crdts[s][Name], k, f, next_dot(s)),
           [m |-> "apply", arg |-> <<k, f>>])

ORRemove(s, k) ==
  Is(s, "ORMap") /\ Local(s, ORMap_remove(crdts[s][Name], k), [m |-> "remove", arg |-> k])

ORClear(s) ==
  Is(s, "ORMap") /\ Local(s, ORMap_clear(crdts[s][Name]), [m |-> "clear", arg |-> None])

----------------------------------------------------------------------------
(* The delta-state specifications: every store has registered an object   *)
(* of the same class under Name and the stores are connected.              *)

InitStores(S, obj) ==
  /\ crdts = [s \in S |-> (Name :> obj)]
  /\ msgs = [s \in S |-> <<>>]
  /\ dot_seq = [s \in S |-> 0]
  /\ published = {}
  /\ delivered = [s \in S |-> {}]
  /\ nops = 0

InitMV == InitStores(CausalStores, MVRegister(Name))

NextMV ==
  \E s \in CausalStores :
    \/ \E val \in Vals : MVWrite(s, val)
    \/ MVClear(s)
    \/ Broadcast(s)
    \/ Sync(s)
    \/ Receive(s)

SpecMV == InitMV /\ [][NextMV]_vars

InitAW == InitStores(CausalStores, AWSet(Name))

NextAW ==
  \E s \in CausalStores :
    \/ \E e \in Elems : AWAdd(s, e)
    \/ \E e \in Elems : AWRemove(s, e)
    \/ AWClear(s)
    \/ Broadcast(s)
    \/ Sync(s)
    \/ Receive(s)

SpecAW == InitAW /\ [][NextAW]_vars

InitRW == InitStores(CausalStores, RWSet(Name))

NextRW ==
  \E s \in CausalStores :
    \/ \E e \in Elems : RWAdd(s, e)
    \/ \E e \in Elems : RWRemove(s, e)
    \/ RWClear(s)
    \/ Broadcast(s)
    \/ Sync(s)
    \/ Receive(s)

SpecRW == InitRW /\ [][NextRW]_vars

\* an ORMap of AWSet, as in the test of DeltaCRDT.py
InitOR == InitStores(CausalStores, ORMap(AWSet(""), Name))

NextOR ==
  \E s \in CausalStores :
    \/ \E k \in Keys : \E f \in MapOps : ORApply(s, k, f)
    \/ \E k \in Keys : ORRemove(s, k)
    \/ ORClear(s)
    \/ Broadcast(s)
    \/ Sync(s)
    \/ Receive(s)

SpecOR == InitOR /\ [][NextOR]_vars

\* the map with two keys
NextOR2 ==
  \E s \in CausalStores :
    \/ \E k \in Keys2 : \E f \in MapOps : ORApply(s, k, f)
    \/ \E k \in Keys2 : ORRemove(s, k)
    \/ ORClear(s)
    \/ Broadcast(s)
    \/ Sync(s)
    \/ Receive(s)

SpecOR2 == InitOR /\ [][NextOR2]_vars

\* the four causal types together
InitCausal == InitMV \/ InitAW \/ InitRW \/ InitOR

NextCausal ==
  \E s \in CausalStores :
    \/ \E val \in Vals : MVWrite(s, val)
    \/ MVClear(s)
    \/ \E e \in Elems : AWAdd(s, e)
    \/ \E e \in Elems : AWRemove(s, e)
    \/ AWClear(s)
    \/ \E e \in Elems : RWAdd(s, e)
    \/ \E e \in Elems : RWRemove(s, e)
    \/ RWClear(s)
    \/ \E k \in Keys : \E f \in MapOps : ORApply(s, k, f)
    \/ \E k \in Keys : ORRemove(s, k)
    \/ ORClear(s)
    \/ Broadcast(s)
    \/ Sync(s)
    \/ Receive(s)

SpecCausal == InitCausal /\ [][NextCausal]_vars

----------------------------------------------------------------------------
(* The LWWRegister specification: three connected stores, an LWWRegister   *)
(* registered under Name at each.                                          *)

LWWSet(s, v) ==
  Is(s, "LWWRegister") /\ Local(s, LWWRegister_set(crdts[s][Name], v), [m |-> "set", arg |-> v])

InitLWW ==
  /\ crdts = [s \in LWWStores |-> (Name :> setStore(LWWRegister(Name), s))]
  /\ msgs = [s \in LWWStores |-> <<>>]
  /\ dot_seq = [s \in LWWStores |-> 0]
  /\ published = {}
  /\ delivered = [s \in LWWStores |-> {}]
  /\ nops = 0

NextLWW ==
  \E s \in LWWStores :
    \/ \E v \in LWWVals : LWWSet(s, v)
    \/ Broadcast(s)
    \/ Sync(s)
    \/ Receive(s)

SpecLWW == InitLWW /\ [][NextLWW]_vars

----------------------------------------------------------------------------
(* The StateCounter specification: two connected stores, a StateCounter    *)
(* registered under Name at each.                                          *)

CounterInc(s, amount) ==
  /\ Is(s, "StateCounter")
  /\ Local(s, StateCounter_inc(crdts[s][Name], amount), [m |-> "inc", arg |-> amount])

CounterReset(s) ==
  /\ Is(s, "StateCounter")
  /\ Local(s, StateCounter_reset(crdts[s][Name]), [m |-> "reset", arg |-> None])

\* receive(cmd) of a command s has received before
CounterReceive(s) ==
  \E h \in published :
    /\ h.id \in delivered[s]
    /\ LET w == receive(World, s, h.cmd, h.id)
           held == w.crdts[s][Name].storeValues
       IN /\ \A o \in DOMAIN held : held[o] <= MaxAmount /\ 0 - held[o] <= MaxAmount
          /\ Arrive(w)

InitCounter ==
  /\ crdts = [s \in OpStores |-> (Name :> setStore(StateCounter(Name), s))]
  /\ msgs = [s \in OpStores |-> <<>>]
  /\ dot_seq = [s \in OpStores |-> 0]
  /\ published = {}
  /\ delivered = [s \in OpStores |-> {}]
  /\ nops = 0

NextCounter ==
  \E s \in OpStores :
    \/ \E amount \in Amounts : CounterInc(s, amount)
    \/ CounterReset(s)
    \/ Broadcast(s)
    \/ Sync(s)
    \/ CounterReceive(s)

SpecCounter == InitCounter /\ [][NextCounter]_vars

----------------------------------------------------------------------------
(* The ORSet specification.                                                *)

\* str(uuid.uuid1()): an id no other call draws, here the store and the
\* count of the ids it has drawn
uuid1(s) == <<s, dot_seq[s] + 1>>

SetAdd(s, e) ==
  /\ Is(s, "ORSet")
  /\ Local(s, ORSet_add(crdts[s][Name], e, uuid1(s)), [m |-> "add", arg |-> e])

SetRemove(s, e) ==
  /\ Is(s, "ORSet")
  /\ Local(s, ORSet_remove(crdts[s][Name], e), [m |-> "remove", arg |-> e])

SetReset(s) ==
  /\ Is(s, "ORSet")
  /\ Local(s, ORSet_reset(crdts[s][Name]), [m |-> "reset", arg |-> None])

InitORSet ==
  /\ crdts = [s \in OpStores |-> (Name :> setStore(ORSet(Name), s))]
  /\ msgs = [s \in OpStores |-> <<>>]
  /\ dot_seq = [s \in OpStores |-> 0]
  /\ published = {}
  /\ delivered = [s \in OpStores |-> {}]
  /\ nops = 0

NextORSet ==
  \E s \in OpStores :
    \/ \E e \in Elems : SetAdd(s, e)
    \/ \E e \in Elems : SetRemove(s, e)
    \/ SetReset(s)
    \/ Broadcast(s)
    \/ Sync(s)
    \/ Receive(s)

SpecORSet == InitORSet /\ [][NextORSet]_vars

----------------------------------------------------------------------------
(* The CRDTMap specification: a store registers CRDTMap(Name) and the      *)
(* ORSet that is the value of every key, and calls put, __getitem__,       *)
(* m[k].add(e) and remove on the map.                                      *)

Registered(s, name) == name \in DOMAIN crdts[s]

\* a call on the objects of store s takes effect: what it published joins
\* the store's list, whether or not it raised.  ready records whether every
\* store had registered the map and the value when the call was made.
Commit(s, L, op) ==
  LET id(i) == <<s, Cardinality(Own(s)) + i>>
      ready == \A t \in Stores : Registered(t, Name) /\ Registered(t, Child)
  IN /\ nops < MaxMapOps
     /\ Len(msgs[s]) + Len(L.out) <= MaxInFlight
     /\ nops' = nops + 1
     /\ crdts' = [crdts EXCEPT ![s] = L.objs]
     /\ msgs' = [msgs EXCEPT
                   ![s] = @ \o [i \in DOMAIN L.out |-> [id |-> id(i), cmd |-> L.out[i]]]]
     /\ dot_seq' = [dot_seq EXCEPT ![s] = @ + L.ndots]
     /\ published' = published \cup
          {[id |-> id(i), origin |-> s,
            cmd |-> L.out[i], known |-> Joined(s), op |-> op, ready |-> ready] :
             i \in DOMAIN L.out}
     /\ UNCHANGED delivered

\* s.register(CRDTMap(Name))
RegisterMap(s) ==
  /\ ~Registered(s, Name)
  /\ crdts' = [crdts EXCEPT ![s] = register(@, CRDTMap(Name), s)]
  /\ UNCHANGED <<msgs, dot_seq, published, delivered, nops>>

\* s.register(ORSet(Child))
RegisterChild(s) ==
  /\ ~Registered(s, Child)
  /\ crdts' = [crdts EXCEPT ![s] = register(@, ORSet(Child), s)]
  /\ UNCHANGED <<msgs, dot_seq, published, delivered, nops>>

\* s[Name][k] = crdt, with crdt the value object the store has registered,
\* or a new ORSet(Child) when it has none
MapPut(s, k) ==
  /\ Registered(s, Name)
  /\ LET crdt == IF Registered(s, Child) THEN crdts[s][Child] ELSE ORSet(Child)
     IN \E L \in {CRDTMap_put(L0, s, dot_seq[s], Name, k, crdt) : L0 \in {Here(crdts[s])}} :
          Commit(s, L, [m |-> "put", arg |-> k])

\* s[Name][k]
MapGetitem(s, k) ==
  /\ Registered(s, Name)
  /\ \E L \in {CRDTMap_getitem(L0, s, dot_seq[s], Name, k) : L0 \in {Here(crdts[s])}} :
       Commit(s, L, [m |-> "getitem", arg |-> k])

\* s[Name][k].add(e)
MapAdd(s, k, e) ==
  /\ Registered(s, Name)
  /\ \E L1 \in {CRDTMap_getitem(L0, s, dot_seq[s], Name, k) : L0 \in {Here(crdts[s])}} :
       \E L \in {IF L1.exc # None THEN L1
                 ELSE Call(L1, L1.ret,
                           ORSet_add(L1.objs[L1.ret], e, NextId(L1, s, dot_seq[s])))} :
         Commit(s, L, [m |-> "add", arg |-> <<k, e>>])

\* s[Name].remove(k)
MapRemove(s, k) ==
  /\ Registered(s, Name)
  /\ \E L \in {CRDTMap_remove(L0, Name, k) : L0 \in {Here(crdts[s])}} :
       Commit(s, L, [m |-> "remove", arg |-> k])

InitMap ==
  /\ crdts = [s \in OpStores |-> EmptyMap]
  /\ msgs = [s \in OpStores |-> <<>>]
  /\ dot_seq = [s \in OpStores |-> 0]
  /\ published = {}
  /\ delivered = [s \in OpStores |-> {}]
  /\ nops = 0

NextMap ==
  \E s \in OpStores :
    \/ RegisterMap(s)
    \/ RegisterChild(s)
    \/ \E k \in Keys : MapPut(s, k)
    \/ \E k \in Keys : MapGetitem(s, k)
    \/ \E k \in Keys : \E e \in Elems : MapAdd(s, k, e)
    \/ \E k \in Keys : MapRemove(s, k)
    \/ Broadcast(s)
    \/ Sync(s)
    \/ Receive(s)

SpecMap == InitMap /\ [][NextMap]_vars

----------------------------------------------------------------------------
(* The CRDTMap of registers: every store has registered CRDTMap(Name) and  *)
(* the LWWRegister that is the value of every key.                         *)

\* s[Name][k].set(v)
MapSet(s, k, v) ==
  /\ Registered(s, Name)
  /\ \E L1 \in {CRDTMap_getitem(L0, s, dot_seq[s], Name, k) : L0 \in {Here(crdts[s])}} :
       \E L \in {IF L1.exc # None THEN L1
                 ELSE Call(L1, L1.ret, LWWRegister_set(L1.objs[L1.ret], v))} :
         Commit(s, L, [m |-> "set", arg |-> <<k, v>>])

InitMapLWW ==
  /\ crdts = [s \in OpStores |->
                register(register(EmptyMap, CRDTMap(Name), s), LWWRegister(Child), s)]
  /\ msgs = [s \in OpStores |-> <<>>]
  /\ dot_seq = [s \in OpStores |-> 0]
  /\ published = {}
  /\ delivered = [s \in OpStores |-> {}]
  /\ nops = 0

NextMapLWW ==
  \E s \in OpStores :
    \/ \E k \in Keys : MapPut(s, k)
    \/ \E k \in Keys : MapGetitem(s, k)
    \/ \E k \in Keys : \E v \in LWWVals : MapSet(s, k, v)
    \/ \E k \in Keys : MapRemove(s, k)
    \/ Broadcast(s)
    \/ Sync(s)
    \/ Receive(s)

SpecMapLWW == InitMapLWW /\ [][NextMapLWW]_vars

----------------------------------------------------------------------------
(* The reset specification: the stores register under Name an object of    *)
(* one of the four op-based classes, call its methods and call reset().    *)

\* s[Name].reset()
Reset(s) ==
  \E L \in {reset(L0, Name) : L0 \in {Here(crdts[s])}} :
    Commit(s, L, [m |-> "reset", arg |-> None])

InitReset ==
  /\ \E crdt \in {LWWRegister(Name), StateCounter(Name), ORSet(Name), CRDTMap(Name)} :
       crdts = [s \in OpStores |-> register(EmptyMap, crdt, s)]
  /\ msgs = [s \in OpStores |-> <<>>]
  /\ dot_seq = [s \in OpStores |-> 0]
  /\ published = {}
  /\ delivered = [s \in OpStores |-> {}]
  /\ nops = 0

NextReset ==
  \E s \in OpStores :
    \/ \E v \in LWWVals : LWWSet(s, v)
    \/ \E amount \in Amounts : CounterInc(s, amount)
    \/ \E e \in Elems : SetAdd(s, e)
    \/ \E k \in Keys : Is(s, "CRDTMap") /\ MapPut(s, k)
    \/ Reset(s)
    \/ Broadcast(s)
    \/ Sync(s)
    \/ Is(s, "StateCounter") /\ CounterReceive(s)
    \/ ~Is(s, "StateCounter") /\ Receive(s)

SpecReset == InitReset /\ [][NextReset]_vars

----------------------------------------------------------------------------
(* What the claims speak of.                                               *)

\* the object registered under Name at store s
Obj(s) == crdts[s][Name]

\* the published commands addressed to the object (apply also publishes
\* the value's own command, under the value's name)
Pub == {h \in published : h.cmd.source = Name}

DeltaOf(h) == h.cmd.data.delta

\* every published command has been delivered to every other store
AllDelivered ==
  \A h \in published : \A s \in Stores \ {h.origin} : h.id \in delivered[s]

\* neither command's origin had executed the other when it issued its own
Concurrent(h, g) ==
  /\ h.origin # g.origin
  /\ h.id \notin g.known
  /\ g.id \notin h.known

\* the readable value of a causal object
Read(self) ==
  CASE self.cls = "ORMap" -> ORMap_str(self)
    [] OTHER -> ValueRead(self.cls, self.dot_store)

\* the causal states at hand of the object's type: the replicas' states and
\* the deltas published for the object
Items == {StateOf(Obj(s)) : s \in Stores} \cup {DeltaOf(h) : h \in Pub}

DotsCovered(c) == dots(c.dot_store) \subseteq c.causal_ctx

----------------------------------------------------------------------------
(* C1: once every published delta has been delivered at least once to     *)
(* every other replica, in any order and with any duplication, all         *)
(* replicas of a causal object hold the same dot store and causal context  *)
(* and so the same readable value.                                         *)
C1_Convergence ==
  AllDelivered =>
    \A s, t \in Stores :
      /\ Obj(s).dot_store = Obj(t).dot_store
      /\ Obj(s).causal_ctx = Obj(t).causal_ctx
      /\ Read(Obj(s)) = Read(Obj(t))

\* two stores have issued concurrent operations, one a map's apply, all is
\* delivered and the object is not empty
C1_Witness ==
  /\ AllDelivered
  /\ \E h, g \in Pub : Concurrent(h, g) /\ h.op.m = "apply"
  /\ \A s \in Stores : ~is_bottom(Obj(s).dot_store)

(* C2: join is commutative: for all reachable states and deltas A, B of    *)
(* the same causal type, joining B into A and joining A into B give the    *)
(* same dot store and the same causal context.                             *)
C2_JoinCommutative ==
  \A A, B \in Items :
    /\ ~IsExc(CausalCRDT_join(A, B))
    /\ CausalCRDT_join(A, B) = CausalCRDT_join(B, A)

(* C3: join is associative: for all reachable states and deltas A, B, C    *)
(* of the same causal type, join(join(A,B),C) and join(A,join(B,C)) have   *)
(* the same dot store and the same causal context.                         *)
C3_JoinAssociative ==
  \A A, B, C \in Items :
    LET ab == CausalCRDT_join(A, B)
        bc == CausalCRDT_join(B, C)
    IN /\ ~IsExc(ab)
       /\ ~IsExc(bc)
       /\ ~IsExc(CausalCRDT_join(ab, C))
       /\ CausalCRDT_join(ab, C) = CausalCRDT_join(A, bc)

(* C4: join is idempotent: join(A,A) = A for every reachable replica       *)
(* state A, and delivering a command again to a replica that has received  *)
(* it is a no-op: it raises nothing and leaves the replica's dot store and *)
(* causal context unchanged.                                               *)
C4_JoinIdempotent ==
  \A s \in Stores :
    /\ CausalCRDT_join(StateOf(Obj(s)), StateOf(Obj(s))) = StateOf(Obj(s))
    /\ \A h \in Pub :
         h.id \in delivered[s] =>
           LET w == receive(World, s, h.cmd, h.id)
           IN w.ok /\ w.crdts[s][Name] = Obj(s)

(* C5: in every reachable replica state and in every delta an operation    *)
(* produced, every dot of the dot store is in the causal context.          *)
C5_DotsInContext ==
  /\ \A s \in Stores : DotsCovered(StateOf(Obj(s)))
  /\ \A h \in published : DotsCovered(DeltaOf(h))

\* a replica that has joined another store's apply delta holds dots
C5_Witness ==
  \E s \in Stores : \E h \in Pub :
    /\ h.op.m = "apply"
    /\ h.id \in delivered[s]
    /\ dots(DeltaOf(h).dot_store) # {}
    /\ dots(Obj(s).dot_store) # {}

----------------------------------------------------------------------------
(* The sets and the map.                                                   *)

\* the published calls of method m
Calls(m) == {h \in Pub : h.op.m = m}

\* h's origin had executed g when it issued h
Observed(h, g) == g.id \in h.known

(* C6: AWSet is add-wins.  When a remove or clear is concurrent with an    *)
(* add of x that no remove of x and no clear has observed, x is present at *)
(* every replica once all is delivered; and an element all of whose adds a *)
(* clear had observed is absent at every replica once all is delivered.    *)
C6_AddWins ==
  AllDelivered =>
    /\ \A A \in Calls("add") : \A R \in Calls("remove") \cup Calls("clear") :
         ( /\ Concurrent(R, A)
           /\ \A g \in Calls("remove") \cup Calls("clear") :
                (g.op.m = "remove" => g.op.arg = A.op.arg) => ~Observed(g, A) )
         => \A s \in Stores : AWSet_contains(Obj(s), A.op.arg)
    /\ \A C \in Calls("clear") : \A e \in Elems :
         (\A A \in Calls("add") : A.op.arg = e => Observed(C, A))
         => \A s \in Stores : ~AWSet_contains(Obj(s), e)

\* a clear that had observed an add of e, concurrent with an add of another
\* element x: after delivery x is in and e is out, everywhere
C6_Witness ==
  /\ AllDelivered
  /\ \E C \in Calls("clear") : \E A, B \in Calls("add") :
       /\ Concurrent(C, A)
       /\ Observed(C, B)
       /\ B.origin # C.origin
       /\ A.op.arg # B.op.arg
       /\ \A s \in Stores : AWSet_elems(Obj(s)) = {A.op.arg}

(* C7: RWSet is remove-wins.  At a replica that has joined a remove of e   *)
(* and a concurrent add of e, in either order, and no add of e and no      *)
(* clear that had observed that remove, e is not in elems(); at a replica  *)
(* that has joined                                                         *)
(* an add of e which had observed every remove of e and every clear the    *)
(* replica has joined, e is in elems().                                    *)
C7_RemoveWins ==
  \A s \in Stores :
    LET here(m) == {h \in Calls(m) : h.id \in Joined(s)}
    IN /\ \A R \in here("remove") : \A A \in here("add") :
            ( /\ Concurrent(R, A)
              /\ A.op.arg = R.op.arg
              /\ \A g \in here("add") : g.op.arg = R.op.arg => ~Observed(g, R)
              /\ \A g \in here("clear") : ~Observed(g, R) )
            => R.op.arg \notin RWSet_elems(Obj(s))
       /\ \A A \in here("add") :
            ( /\ \A R \in here("remove") : R.op.arg = A.op.arg => Observed(A, R)
              /\ \A C \in here("clear") : Observed(A, C) )
            => A.op.arg \in RWSet_elems(Obj(s))

\* one replica holds a remove of e and a concurrent add of e and shows e
\* absent, while the remover has added e again and shows it present
C7_Witness ==
  \E s, t \in Stores : \E R \in Calls("remove") : \E A, B \in Calls("add") :
    /\ Concurrent(R, A)
    /\ A.op.arg = R.op.arg /\ B.op.arg = R.op.arg
    /\ {R.id, A.id} \subseteq Joined(s) \cap Joined(t)
    /\ Observed(B, R) /\ Observed(B, A)
    /\ B.id \in Joined(t) /\ B.id \notin Joined(s)
    /\ R.op.arg \notin RWSet_elems(Obj(s))
    /\ R.op.arg \in RWSet_elems(Obj(t))

(* C8: ORMap of AWSet.  When remove(k) at one replica is concurrent with   *)
(* apply(k, add x) at another, and every other call had been observed by   *)
(* both, then once all is delivered every replica has k present and mapped *)
(* to exactly {x}.                                                         *)
C8_RemoveVsApply ==
  AllDelivered =>
    \A R \in Calls("remove") : \A A \in Calls("apply") :
      ( /\ Concurrent(R, A)
        /\ A.op.arg[1] = R.op.arg
        /\ A.op.arg[2].m = "add"
        /\ \A g \in Pub \ {R, A} : Observed(R, g) /\ Observed(A, g) )
      => \A s \in Stores : ORMap_str(Obj(s)) = (R.op.arg :> {A.op.arg[2].arg})

\* the remove had observed another element under k, added by the replica
\* that then adds x
C8_Witness ==
  /\ AllDelivered
  /\ \E R \in Calls("remove") : \E A, B \in Calls("apply") :
       /\ Concurrent(R, A)
       /\ Observed(R, B) /\ Observed(A, B)
       /\ A.op.arg[1] = R.op.arg /\ B.op.arg[1] = R.op.arg
       /\ A.op.arg[2].m = "add" /\ B.op.arg[2].m = "add"
       /\ A.op.arg[2].arg # B.op.arg[2].arg
       /\ \A s \in Stores : ORMap_str(Obj(s)) = (R.op.arg :> {A.op.arg[2].arg})

----------------------------------------------------------------------------
(* The registers.                                                          *)

\* the value a write call wrote, under the dot it drew
Written(W) == DeltaOf(W).dot_store.map

\* the writes no later write or clear has observed
Surviving ==
  {W \in Calls("write") :
     \A g \in Calls("write") \cup Calls("clear") : ~Observed(g, W)}

(* C9: MVRegister.  Once all is delivered every replica holds exactly the  *)
(* writes that no write or clear had observed, so concurrent writes all    *)
(* appear in read(); a local write(v) leaves that replica's read() as      *)
(* exactly [v], and a local clear() leaves it empty.                       *)
C9_Register ==
  /\ AllDelivered =>
       \A s \in Stores :
         /\ \A W \in Surviving : \A d \in DOMAIN Written(W) :
              /\ d \in DOMAIN Obj(s).dot_store.map
              /\ Obj(s).dot_store.map[d] = Written(W)[d]
         /\ DOMAIN Obj(s).dot_store.map =
              UNION {DOMAIN Written(W) : W \in Surviving}
  /\ \A s \in Stores :
       /\ \A v \in Vals :
            MVRegister_read(
              command(Name, MVRegister_write(Obj(s), v, next_dot(s))).self)
            = SetToBag({v})
       /\ MVRegister_read(command(Name, MVRegister_clear(Obj(s))).self) = EmptyBag

\* two concurrent writes of different values, each of which had observed
\* an earlier write: after delivery every replica reads the two values
C9_Witness ==
  /\ AllDelivered
  /\ \E W1, W2, B \in Calls("write") :
       /\ Concurrent(W1, W2)
       /\ Observed(W1, B) /\ Observed(W2, B)
       /\ W1.op.arg # W2.op.arg
       /\ \A s \in Stores :
            MVRegister_read(Obj(s)) = SetToBag({W1.op.arg, W2.op.arg})

\* (timestamp, origin) of a set command, and their order
Stamp(h) == <<h.cmd.data.t, h.cmd.data.store>>

Before(a, b) == a[1] < b[1] \/ (a[1] = b[1] /\ a[2] < b[2])

(* C10: LWWRegister.  Once every set command has been delivered to every   *)
(* replica, get() at every replica is the value of the set command with    *)
(* the highest (timestamp, origin id) pair.                                *)
C10_LastWriterWins ==
  AllDelivered =>
    \A h \in Calls("set") :
      (\A g \in Calls("set") \ {h} : Before(Stamp(g), Stamp(h)))
      => \A s \in Stores : LWWRegister_get(Obj(s)) = h.op.arg

----------------------------------------------------------------------------
(* The counter.                                                            *)

(* C11: StateCounter redelivery is harmless: executing a StateCounterInc   *)
(* command again at a replica that has received it leaves the replica's    *)
(* per-store amounts and its get() unchanged.                              *)
C11_RedeliveryHarmless ==
  \A s \in Stores : \A h \in Pub :
    h.id \in delivered[s] =>
      LET again == receive(World, s, h.cmd, h.id).crdts[s][Name]
      IN /\ again.storeValues = Obj(s).storeValues
         /\ StateCounter_get(again) = StateCounter_get(Obj(s))

\* the published commands of one type
Typed(cmdtype) == {h \in Pub : h.cmd.type = cmdtype}

\* the ids of the adds of e that h's origin had executed when it issued h
AddsSeen(h, e) ==
  {g.cmd.data.id : g \in {x \in Typed("ORSetAdd") : x.cmd.data.elem = e /\ x.id \in h.known}}

\* no remove of a's element had observed the add a
Unobserved(a) ==
  \A h \in Typed("ORSetRemove") :
    h.cmd.data.elem = a.cmd.data.elem => a.id \notin h.known

Untouched(a) ==
  /\ Unobserved(a)
  /\ \A h \in Typed("ORSetRemoveAll") : a.id \notin h.known

(* C19: removeAll()/reset() tombstones, at every replica, exactly the      *)
(* pairs that were in the issuing replica's adds when it was called.  An   *)
(* add that no remove of its element and no removeAll had observed (one    *)
(* executed at the issuer after the removeAll was issued included) is      *)
(* tombstoned at no replica, a removeAll tombstones at every replica that  *)
(* has executed it every add it had observed, and once every command is    *)
(* delivered the replicas hold the same elements.                          *)
C19_ResetSnapshot ==
  /\ \A a \in Typed("ORSetAdd") : \A s \in Stores :
       LET x == <<a.cmd.data.elem, a.cmd.data.id>>
       IN /\ Untouched(a) => x \notin Obj(s).tombstones
          /\ \A h \in Typed("ORSetRemoveAll") :
               (a.id \in h.known /\ h.id \in Joined(s)) => x \in Obj(s).tombstones
  /\ AllDelivered =>
       \A s, t \in Stores : ORSet_getAll(Obj(s)) = ORSet_getAll(Obj(t))

----------------------------------------------------------------------------
(* The CRDTMap.                                                            *)

\* the commands the calls of method m published
MapCalls(m) == {h \in published : h.op.m = m}

\* one call published both commands
SameCall(h, g) == h.origin = g.origin /\ h.known = g.known

\* what str() of the map registered at s shows
Shown(s) == CRDTMap_str(crdts[s], Name)

\* every store had registered the map and the value before the first call
RegisteredFirst == \A h \in published : h.ready

(* C13: a replica's m[k].add(e) on a present key concurrent with another   *)
(* replica's m.remove(k), every other call having been observed by both    *)
(* and every store having registered the map and the value before the      *)
(* first call: once every command is delivered, in any order, both         *)
(* replicas show k present and mapped to the set holding exactly e.        *)
C13_UpdateVsRemove ==
  \A R \in {h \in MapCalls("remove") : h.cmd.type = "ORSetRemoveAll"} :
    \A A \in {h \in MapCalls("add") : h.cmd.type = "ORSetAdd" /\ h.cmd.source = Child} :
      ( /\ AllDelivered
        /\ RegisteredFirst
        /\ A.op.arg[1] = R.op.arg
        /\ Concurrent(R, A)
        /\ \A g \in published :
             \/ SameCall(g, R)
             \/ SameCall(g, A)
             \/ g.id \in R.known /\ g.id \in A.known )
      => \A s \in Stores : Shown(s) = (R.op.arg :> {A.op.arg[2]})

\* the stores that have registered the map, and the keys their keysets hold
Mapped == {s \in Stores : Registered(s, Name)}

Present(s, k) == ORSet_contains(crdts[s][Obj(s).keyset], k)

\* s[Name][k] evaluated in the state at hand
Getitem(s, k) == CRDTMap_getitem(Here(crdts[s]), s, dot_seq[s], Name, k)

(* C14: reading a key the keyset does not contain fails with KeyError,     *)
(* changes no object of the replica and publishes no command; reading a    *)
(* present key publishes an add of the key to the keyset, which then holds *)
(* one more pair of the key.                                               *)
C14_AbsentRead ==
  \A s \in Mapped : \A k \in Keys :
    LET L == Getitem(s, k)
        keyset == Obj(s).keyset
    IN IF Present(s, k)
       THEN /\ Len(L.out) = 1
            /\ L.out[1].type = "ORSetAdd" /\ L.out[1].source = keyset
            /\ L.out[1].data.elem = k
            /\ <<k, L.out[1].data.id>> \in L.objs[keyset].adds \ crdts[s][keyset].adds
       ELSE /\ L.exc = "KeyError"
            /\ L.objs = crdts[s]
            /\ L.out = <<>>
            /\ L.ndots = 0

\* one replica holds a key that was put and is present, another a keyset
\* in which the key was removed: a read succeeds at the one and fails at
\* the other
C14_Witness ==
  \E s, t \in Mapped : \E k \in Keys :
    /\ Present(s, k) /\ Getitem(s, k).exc = None
    /\ MapCalls("getitem") # {}
    /\ ~Present(t, k) /\ Getitem(t, k).exc = "KeyError"
    /\ \E x \in crdts[t][Obj(t).keyset].adds : x[1] = k

(* C15: remove(key) of a key the keyset does not contain fails with        *)
(* KeyError instead of succeeding silently.                                *)
C15_AbsentRemove ==
  \A s \in Mapped : \A k \in Keys :
    ~Present(s, k) => CRDTMap_remove(Here(crdts[s]), Name, k).exc = "KeyError"

(* C20: at every replica, every key the keyset of a CRDTMap contains has   *)
(* an entry in the map's table of value names, so that a read or a remove  *)
(* of a present key does not fail on a missing entry.                      *)
C20_KeysInTable ==
  \A s \in Mapped : \A k \in Keys :
    Present(s, k) =>
      /\ k \in DOMAIN Obj(s).map
      /\ (Obj(s).map[k] \in DOMAIN crdts[s] => Getitem(s, k).exc = None)

----------------------------------------------------------------------------
(* The merge path and the frame of apply.                                  *)

\* what each mutating method of the object at s builds in the state at hand
Builds(s) ==
  LET o == Obj(s)
      dot == next_dot(s)
  IN CASE o.cls = "MVRegister" ->
            {MVRegister_write(o, v, dot) : v \in Vals} \cup {MVRegister_clear(o)}
       [] o.cls = "AWSet" ->
            {AWSet_add(o, e, dot) : e \in Elems} \cup {AWSet_remove(o, e) : e \in Elems}
              \cup {AWSet_clear(o)}
       [] o.cls = "RWSet" ->
            {RWSet_add(o, e, dot) : e \in Elems} \cup {RWSet_remove(o, e, dot) : e \in Elems}
              \cup {RWSet_clear(o)}
       [] o.cls = "ORMap" ->
            {ORMap_apply(o, k, f, dot) : k \in Keys, f \in MapOps}
              \cup {ORMap_remove(o, k) : k \in Keys} \cup {ORMap_clear(o)}

(* C17: the merge path has no error state for the deltas the library       *)
(* builds.  In every reachable state, for every causal type, the delta of  *)
(* each mutating method joins into the local state without raising, and    *)
(* every delta built or published joins into every peer's state without    *)
(* raising.                                                                *)
C17_JoinNeverRaises ==
  \A s \in Stores :
    /\ \A b \in Builds(s) :
         LET c == command(Name, b)
         IN /\ ~c.raised
            /\ \A t \in Stores : \A i \in DOMAIN c.out :
                 c.out[i].source = Name => ~IsExc(executeCommand(Obj(t), c.out[i]))
    /\ \A h \in Pub : ~IsExc(executeCommand(Obj(s), h.cmd))

\* the nested value a map state holds under key k
Nested(self, k) == MapGet(self.dot_store, k)

(* C18: ORMap.apply(k, f) affects only key k.  At the origin after the     *)
(* local join, and at any replica that joins the delta of an apply, the    *)
(* nested value under every other key is what it was before the join.      *)
C18_ApplyFrame ==
  \A s \in Stores :
    /\ \A k \in Keys2 : \A f \in MapOps :
         LET after == command(Name, ORMap_apply(Obj(s), k, f, next_dot(s))).self
         IN \A other \in Keys2 \ {k} : Nested(after, other) = Nested(Obj(s), other)
    /\ \A h \in Calls("apply") :
         LET after == executeCommand(Obj(s), h.cmd)
         IN \A other \in Keys2 \ {h.op.arg[1]} :
              Nested(after, other) = Nested(Obj(s), other)

----------------------------------------------------------------------------
(* reset().                                                                *)

\* the classes that inherit the reset of CRDT
NoReset == {"LWWRegister", "CRDTMap"}

(* C16: reset() on an object whose class defines no reset of its own, an   *)
(* LWWRegister or a CRDTMap, raises the base class's exception, leaves     *)
(* every object of the store as it was and publishes nothing; reset() on   *)
(* an ORSet or a StateCounter does not raise and publishes its command.    *)
C16_ResetUnsupported ==
  /\ \A s \in Stores :
       LET L == reset(Here(crdts[s]), Name)
       IN IF Obj(s).cls \in NoReset
          THEN L.exc = "Exception" /\ L.objs = crdts[s] /\ L.out = <<>>
          ELSE L.exc = None /\ Len(L.out) = 1
  /\ \A h \in MapCalls("reset") : h.cmd.type \in {"ORSetRemoveAll", "StateCounterInc"}

\* an LWWRegister that was set, on which reset() was called: one call more
\* was made than commands were published
C16_Witness ==
  /\ \E s \in Stores : Obj(s).cls = "LWWRegister" /\ Obj(s).t > 0
  /\ nops > Cardinality(published)

(* C21: CRDTMap.remove(key) is all-or-nothing with respect to failure.     *)
(* When the reset of the value raises, as it does for an LWWRegister, the  *)
(* keyset of the removing replica still contains the key and the call has  *)
(* published no remove for the keyset.                                     *)
C21_RemoveAllOrNothing ==
  \A s \in Mapped : \A k \in Keys :
    LET L == CRDTMap_remove(Here(crdts[s]), Name, k)
        keyset == Obj(s).keyset
    IN L.exc = "Exception" =>
         /\ ORSet_contains(L.objs[keyset], k)
         /\ \A i \in DOMAIN L.out : L.out[i].type # "ORSetRemove"
====
